---- MODULE Spec2Model ----
(***************************************************************************)
(* Translingo backend (backend/app.py): language-code normalisation, safe  *)
(* language detection, the per-script romanizers, the romanize dispatcher, *)
(* the translate-and-romanize pipeline and its two transports (the HTTP    *)
(* handler and the CLI prompt loop).                                       *)
(*                                                                         *)
(* A text is a sequence of characters.  An ASCII character is the string   *)
(* holding it; any other character is named by its code point ("U00DB").   *)
(* The string literals of app.py are stored as the code points the file    *)
(* holds: the Urdu, Arabic and Hindi tables are keyed by sequences such as *)
(* U+00DB U+00D9 U+2026, and that is what the tables below hold.           *)
(***************************************************************************)
EXTENDS Integers, Sequences, FiniteSets, TLC

VARIABLES
    handles,   \* the optional-engine handles set by the module's imports
    cli,       \* prompt_loop: its position and the values it has read
    last,      \* the most recent request a transport handled, and its outcome
    arg,       \* the argument of a direct call of one function
    ret        \* the result of that call

vars == <<handles, cli, last, arg, ret>>

(***************************************************************************)
(* Bounds of the model.                                                    *)
(***************************************************************************)
MaxCodeLen == 3
MaxDetectLen == 4
MaxUrduLen == 4
MaxWords == 2

SeqsUpTo(A, n) == UNION {[1..k -> A] : k \in 0..n}

(***************************************************************************)
(* Python's str methods, on sequences of characters.                       *)
(***************************************************************************)
Whitespace == {" ", "U0009"}

IsSpace(c) == c \in Whitespace

AsciiUpper == <<"A", "B", "C", "D", "E", "F", "G", "H", "I", "J", "K", "L", "M", "N", "O", "P", "Q", "R", "S", "T", "U", "V", "W", "X", "Y", "Z">>
AsciiLower == <<"a", "b", "c", "d", "e", "f", "g", "h", "i", "j", "k", "l", "m", "n", "o", "p", "q", "r", "s", "t", "u", "v", "w", "x", "y", "z">>
AsciiDigits == <<"0", "1", "2", "3", "4", "5", "6", "7", "8", "9">>
AsciiPunct == {" ", "U0009", "!", ".", ",", "~", "-", "(", ")", ":", "'", "?"}

Range(s) == {s[i] : i \in 1..Len(s)}

\* ord(ch) < 128
IsAscii(c) == c \in Range(AsciiUpper) \cup Range(AsciiLower) \cup Range(AsciiDigits) \cup AsciiPunct

\* The letters beyond ASCII that the texts of the model use: U+00D8, U+00D9,
\* U+00DA, U+00DB, U+00E0, U+00E9 are Latin-1 letters, U+00AA and U+00BA are
\* ordinal indicators (category Lo), U+02C6 is a modifier letter (Lm).
OtherLetters == {"U00D8", "U00D9", "U00DA", "U00DB", "U00E0", "U00E9", "U00AA", "U00BA", "U02C6",
                 "U00F8", "U00F9", "U00FA", "U00FB"}

\* str.isalnum() of one character
IsAlnum(c) == c \in Range(AsciiUpper) \cup Range(AsciiLower) \cup Range(AsciiDigits) \cup OtherLetters

\* \w of the re module on str patterns: alphanumeric or underscore
IsWordChar(c) == IsAlnum(c) \/ c = "_"

OtherUpper == <<"U00D8", "U00D9", "U00DA", "U00DB">>
OtherLower == <<"U00F8", "U00F9", "U00FA", "U00FB">>

LowerChar(c) ==
    IF \E i \in 1..Len(AsciiUpper) : AsciiUpper[i] = c
    THEN AsciiLower[CHOOSE i \in 1..Len(AsciiUpper) : AsciiUpper[i] = c]
    ELSE IF \E i \in 1..Len(OtherUpper) : OtherUpper[i] = c
    THEN OtherLower[CHOOSE i \in 1..Len(OtherUpper) : OtherUpper[i] = c]
    ELSE c

\* str.lower()
Lower(s) == [i \in 1..Len(s) |-> LowerChar(s[i])]

IsBlank(s) == \A i \in 1..Len(s) : IsSpace(s[i])

\* str.strip()
Strip(s) ==
    IF IsBlank(s) THEN <<>>
    ELSE LET a == CHOOSE i \in 1..Len(s) : ~IsSpace(s[i]) /\ \A j \in 1..(i - 1) : IsSpace(s[j])
             b == CHOOSE i \in 1..Len(s) : ~IsSpace(s[i]) /\ \A j \in (i + 1)..Len(s) : IsSpace(s[j])
         IN  SubSeq(s, a, b)

\* sub in s
Contains(s, sub) == \E i \in 1..(Len(s) - Len(sub) + 1) : SubSeq(s, i, i + Len(sub) - 1) = sub

\* s.startswith(p)
StartsWith(s, p) == Len(s) >= Len(p) /\ SubSeq(s, 1, Len(p)) = p

\* str.split() with no separator: the maximal runs of non-whitespace, in order
RECURSIVE SplitFrom(_, _, _)
SplitFrom(s, i, cur) ==
    IF i > Len(s) THEN (IF cur = <<>> THEN <<>> ELSE <<cur>>)
    ELSE IF IsSpace(s[i]) THEN (IF cur = <<>> THEN <<>> ELSE <<cur>>) \o SplitFrom(s, i + 1, <<>>)
    ELSE SplitFrom(s, i + 1, Append(cur, s[i]))

Split(s) == SplitFrom(s, 1, <<>>)

\* sep.join(parts)
RECURSIVE Join(_, _)
Join(sep, parts) ==
    IF parts = <<>> THEN <<>>
    ELSE IF Len(parts) = 1 THEN parts[1]
    ELSE parts[1] \o sep \o Join(sep, Tail(parts))

\* ''.join(parts)
Concat(parts) == Join(<<>>, parts)

\* str.replace(old, new): the non-overlapping occurrences, left to right
RECURSIVE ReplaceFrom(_, _, _, _)
ReplaceFrom(s, i, old, new) ==
    IF i > Len(s) THEN <<>>
    ELSE IF i + Len(old) - 1 <= Len(s) /\ SubSeq(s, i, i + Len(old) - 1) = old
    THEN new \o ReplaceFrom(s, i + Len(old), old, new)
    ELSE <<s[i]>> \o ReplaceFrom(s, i + 1, old, new)

Replace(s, old, new) == ReplaceFrom(s, 1, old, new)

(***************************************************************************)
(* LANG_MAP and normalize_target_lang                                      *)
(***************************************************************************)
LANG_MAP == <<
    <<<<"e", "n", "g", "l", "i", "s", "h">>, <<"e", "n">>>>, <<<<"e", "n">>, <<"e", "n">>>>,
    <<<<"h", "i", "n", "d", "i">>, <<"h", "i">>>>, <<<<"h", "i">>, <<"h", "i">>>>,
    <<<<"j", "a", "p", "a", "n", "e", "s", "e">>, <<"j", "a">>>>, <<<<"j", "a">>, <<"j", "a">>>>,
    <<<<"k", "o", "r", "e", "a", "n">>, <<"k", "o">>>>, <<<<"k", "o">>, <<"k", "o">>>>,
    <<<<"s", "p", "a", "n", "i", "s", "h">>, <<"e", "s">>>>, <<<<"e", "s">>, <<"e", "s">>>>,
    <<<<"f", "r", "e", "n", "c", "h">>, <<"f", "r">>>>, <<<<"f", "r">>, <<"f", "r">>>>,
    <<<<"t", "u", "r", "k", "i", "s", "h">>, <<"t", "r">>>>, <<<<"t", "r">>, <<"t", "r">>>>,
    <<<<"D", "u", "t", "c", "h">>, <<"n", "l">>>>, <<<<"n", "l">>, <<"n", "l">>>>,
    <<<<"g", "e", "r", "m", "a", "n">>, <<"d", "e">>>>, <<<<"d", "e">>, <<"d", "e">>>>,
    <<<<"r", "u", "s", "s", "i", "a", "n">>, <<"r", "u">>>>, <<<<"r", "u">>, <<"r", "u">>>>,
    <<<<"i", "t", "a", "l", "i", "a", "n">>, <<"i", "t">>>>, <<<<"i", "t">>, <<"i", "t">>>>,
    <<<<"c", "h", "i", "n", "e", "s", "e">>, <<"z", "h", "-", "C", "N">>>>, <<<<"z", "h">>, <<"z", "h", "-", "C", "N">>>>,
    <<<<"z", "h", "-", "c", "n">>, <<"z", "h", "-", "C", "N">>>>, <<<<"z", "h", "-", "t", "w">>, <<"z", "h", "-", "T", "W">>>>,
    <<<<"l", "a", "t", "i", "n">>, <<"l", "a">>>>, <<<<"l", "a">>, <<"l", "a">>>>,
    <<<<"c", "y", "r", "i", "l", "l", "i", "c">>, <<"r", "u">>>>, <<<<"s", "r">>, <<"s", "r">>>> >>

\* dict.get(key, default) on a table of <<key, value>> pairs
TableGet(table, key, default) ==
    IF \E i \in 1..Len(table) : table[i][1] = key
    THEN table[CHOOSE i \in 1..Len(table) : table[i][1] = key][2]
    ELSE default

TableHas(table, key) == \E i \in 1..Len(table) : table[i][1] = key

DefaultLang == <<"e", "n">>

normalize_target_lang(inp) ==
    IF inp = <<>> THEN DefaultLang
    ELSE LET key == Lower(Strip(inp))
         IN  TableGet(LANG_MAP, key, key)

(***************************************************************************)
(* detect_language_safely                                                  *)
(***************************************************************************)
UnknownLang == <<"u", "n", "k", "n", "o", "w", "n">>

\* the threshold 0.90, in hundredths
ConfThreshold == 90

LowConfidence_le(conf) == conf <= ConfThreshold

LowConfidence(conf) == conf < ConfThreshold

english_signals_without_hi ==
    {<<"t", "h", "e", " ">>, <<" ", "a", "n", "d", " ">>, <<" ", "h", "o", "w", " ">>, <<" ", "y", "o", "u">>, <<" ", "i", "s", " ">>, <<" ", "a", "r", "e", " ">>, <<" ", "h", "e", "l", "l", "o">>}

english_signals ==
    {<<"t", "h", "e", " ">>, <<" ", "a", "n", "d", " ">>, <<" ", "h", "o", "w", " ">>, <<" ", "y", "o", "u">>, <<" ", "i", "s", " ">>, <<" ", "a", "r", "e", " ">>, <<" ", "h", "e", "l", "l", "o">>, <<" ", "h", "i", " ">>}

num_ascii(text) == Cardinality({i \in 1..Len(text) : IsAscii(text[i])})

Max(a, b) == IF a >= b THEN a ELSE b

\* num_ascii / max(1, len(text)) > 0.9, in integers
MostlyAscii(text) == 10 * num_ascii(text) > 9 * Max(1, Len(text))

\* classify is the answer langid.classify gives for the text: (lang, conf).
\* The result records whether the classifier was called.
detect_language_safely(text, classify) ==
    IF text = <<>> \/ Strip(text) = <<>>
    THEN [value |-> UnknownLang, classified |-> FALSE]
    ELSE IF /\ LowConfidence(classify.conf)
            /\ MostlyAscii(text)
            /\ \E sig \in english_signals : Contains(Lower(text), sig)
         THEN [value |-> <<"e", "n">>, classified |-> TRUE]
         ELSE [value |-> classify.lang, classified |-> TRUE]

(***************************************************************************)
(* clean_hinglish                                                          *)
(***************************************************************************)
\* \b at position p of s (between s[p-1] and s[p]): a word character on
\* exactly one side, the ends of the string counting as non-word
WordBoundary(s, p) ==
    (p > 1 /\ IsWordChar(s[p - 1])) # (p <= Len(s) /\ IsWordChar(s[p]))

\* re.sub(r"\b" + re.escape(k) + r"\b", v, s): leftmost non-overlapping matches
RECURSIVE ReSubWordFrom(_, _, _, _)
ReSubWordFrom(s, i, k, v) ==
    IF i > Len(s) THEN <<>>
    ELSE IF /\ i + Len(k) - 1 <= Len(s)
            /\ SubSeq(s, i, i + Len(k) - 1) = k
            /\ WordBoundary(s, i)
            /\ WordBoundary(s, i + Len(k))
    THEN v \o ReSubWordFrom(s, i + Len(k), k, v)
    ELSE <<s[i]>> \o ReSubWordFrom(s, i + 1, k, v)

ReSubWord(s, k, v) == ReSubWordFrom(s, 1, k, v)

\* the length of the run of c in s that starts at i
RECURSIVE RunLen(_, _, _)
RunLen(s, i, c) == IF i <= Len(s) /\ s[i] = c THEN 1 + RunLen(s, i + 1, c) ELSE 0

\* re.sub(c c+, new, s): every run of two or more c becomes new
RECURSIVE CollapseFrom(_, _, _, _)
CollapseFrom(s, i, c, new) ==
    IF i > Len(s) THEN <<>>
    ELSE IF RunLen(s, i, c) >= 2
    THEN new \o CollapseFrom(s, i + RunLen(s, i, c), c, new)
    ELSE <<s[i]>> \o CollapseFrom(s, i + 1, c, new)

Collapse(s, c, new) == CollapseFrom(s, 1, c, new)

\* the dict of clean_hinglish, in its insertion order
replacements == <<
    <<<<"m", "a", "i", "M">>, <<"m", "a", "i", "n">>>>,
    <<<<"t", "u", "m", "a", "s", "e">>, <<"t", "u", "m", "s", "e">>>>,
    <<<<"p", "y", "A", "r", "a">>, <<"p", "y", "a", "a", "r">>>>,
    <<<<"k", "a", "r", "a", "t", "A">>, <<"k", "a", "r", "t", "a">>>>,
    <<<<"h", "U", ".", "n">>, <<"h", "o", "o", "n">>>>,
    <<<<"h", "U", ".", "N">>, <<"h", "o", "o", "n">>>>,
    <<<<"t", "u", "m", "h", "e", "M">>, <<"t", "u", "m", "h", "e">>>>,
    <<<<"y", "A", "d", "a">>, <<"y", "a", "a", "d">>>>,
    <<<<"m", "u", "j", "h", "e">>, <<"m", "u", "j", "h", "e">>>>,
    <<<<"p", "U", "r", "A">>, <<"p", "o", "o", "r", "a">>>>,
    <<<<"y", "a", "k", "I", "n", "a">>, <<"y", "a", "k", "e", "e", "n">>>>,
    <<<<"t", "u", "m", "a">>, <<"t", "u", "m">>>>,
    <<<<"a", "i", "s", "A">>, <<"a", "i", "s", "a">>>>,
    <<<<"k", "a", "r", "a", "t", "e">>, <<"k", "a", "r", "t", "e">>>> >>

\* the chained str.replace calls that open clean_hinglish
StripDiacritics(s) ==
    LET t1 == Replace(s, <<".", "N">>, <<"n">>)
        t2 == Replace(t1, <<"M">>, <<"n">>)
        t3 == Replace(t2, <<"~", "N">>, <<"n">>)
        t4 == Replace(t3, <<".", "a">>, <<"a">>)
        t5 == Replace(t4, <<".", "i">>, <<"i">>)
        t6 == Replace(t5, <<".", "u">>, <<"u">>)
    IN  Replace(t6, <<".", "r">>, <<"r">>)

\* for k, v in replacements.items(): text = re.sub(...)
RECURSIVE ApplyReplacements(_, _)
ApplyReplacements(s, i) ==
    IF i > Len(replacements) THEN s
    ELSE ApplyReplacements(ReSubWord(s, replacements[i][1], replacements[i][2]), i + 1)

\* lower(), then aa+ -> aa, ii+ -> i, uu+ -> u
CollapseVowels(s) ==
    Collapse(Collapse(Collapse(s, "a", <<"a", "a">>), "i", <<"i">>), "u", <<"u">>)

clean_hinglish(itrans_text) ==
    Strip(CollapseVowels(Lower(ApplyReplacements(StripDiacritics(itrans_text), 1))))

(***************************************************************************)
(* romanize_urdu_text                                                      *)
(***************************************************************************)
URDU_WORD_MAP == <<
    <<<<"U00D9", "U2026", "U00DB", "U0152", "U00DA", "U00BA">>, <<"m", "a", "i", "n">>>>,
    <<<<"U00D8", "U00AA", "U00D9", "U2026">>, <<"t", "u", "m">>>>,
    <<<<"U00D8", "U00A2", "U00D9", "U00BE">>, <<"a", "a", "p">>>>,
    <<<<"U00DB", "U00D9", "U2026">>, <<"h", "u", "m">>>>,
    <<<<"U00D9", "U02C6", "U00DB">>, <<"w", "o", "h">>>>,
    <<<<"U00DB", "U0152", "U00DB">>, <<"y", "e", "h">>>>,
    <<<<"U00D9", "U02C6", "U00DB", "U00D8", "U00A7", "U00DA", "U00BA">>, <<"w", "a", "h", "a", "n">>>>,
    <<<<"U00DB", "U0152", "U00DB", "U00D8", "U00A7", "U00DA", "U00BA">>, <<"y", "a", "h", "a", "n">>>>,
    <<<<"U00D9", "U2026", "U00DB", "U0152", "U00D8", "U00B1", "U00D8", "U00A7">>, <<"m", "e", "r", "a">>>>,
    <<<<"U00D9", "U2026", "U00DB", "U0152", "U00D8", "U00B1", "U00DB", "U0152">>, <<"m", "e", "r", "i">>>>,
    <<<<"U00D9", "U2026", "U00DB", "U0152", "U00D8", "U00B1", "U00DB", "U2019">>, <<"m", "e", "r", "e">>>>,
    <<<<"U00DB", "U00D9", "U2026", "U00D8", "U00A7", "U00D8", "U00B1", "U00D8", "U00A7">>, <<"h", "a", "m", "a", "r", "a">>>>,
    <<<<"U00DB", "U00D9", "U2026", "U00D8", "U00A7", "U00D8", "U00B1", "U00DB", "U0152">>, <<"h", "a", "m", "a", "r", "i">>>>,
    <<<<"U00DB", "U00D9", "U2026", "U00D8", "U00A7", "U00D8", "U00B1", "U00DB", "U2019">>, <<"h", "a", "m", "a", "r", "e">>>>,
    <<<<"U00D8", "U00B3", "U00D9", "U201E", "U00D8", "U00A7", "U00D9", "U2026">>, <<"s", "a", "l", "a", "a", "m">>>>,
    <<<<"U00DB", "U00DB", "U0152", "U00D9", "U201E", "U00D9", "U02C6">>, <<"h", "e", "l", "l", "o">>>>,
    <<<<"U00DB", "U00D8", "U00A7", "U00D8", "U00A6", "U00DB", "U2019">>, <<"h", "i">>>>,
    <<<<"U00DA", "U00A9", "U00DB", "U0152", "U00D8", "U00B3", "U00DB", "U2019">>, <<"k", "a", "i", "s", "e">>>>,
    <<<<"U00DB", "U00D9", "U02C6", "U00DA", "U00BA">>, <<"h", "o", "o", "n">>>>,
    <<<<"U00DB", "U00DB", "U2019">>, <<"h", "a", "i">>>>,
    <<<<"U00DB", "U00DB", "U0152", "U00DA", "U00BA">>, <<"h", "a", "i", "n">>>>,
    <<<<"U00DB", "U00D8", "U00A7", "U00DA", "U00BA">>, <<"h", "a", "a", "n">>>>,
    <<<<"U00D9", "U2020", "U00DB", "U00DB", "U0152", "U00DA", "U00BA">>, <<"n", "a", "h", "i", "n">>>>,
    <<<<"U00D9", "U00B9", "U00DA", "U00BE", "U00DB", "U0152", "U00DA", "U00A9">>, <<"t", "h", "e", "e", "k">>>>,
    <<<<"U00DA", "U00A9", "U00D8", "U00B1", "U00D9", "U2020", "U00D8", "U00A7">>, <<"k", "a", "r", "n", "a">>>>,
    <<<<"U00DA", "U00A9", "U00D8", "U00B1", "U00D8", "U00AA", "U00D8", "U00A7">>, <<"k", "a", "r", "t", "a">>>>,
    <<<<"U00DA", "U00A9", "U00D8", "U00B1", "U00D8", "U00AA", "U00DB", "U0152">>, <<"k", "a", "r", "t", "i">>>>,
    <<<<"U00D8", "U00AC", "U00D8", "U00A7", "U00D9", "U2020", "U00D8", "U00A7">>, <<"j", "a", "n", "a">>>>,
    <<<<"U00D8", "U00AC", "U00D8", "U00A7", "U00D8", "U00AA", "U00D8", "U00A7">>, <<"j", "a", "t", "a">>>>,
    <<<<"U00D8", "U00AC", "U00D8", "U00A7", "U00D8", "U00AA", "U00DB", "U0152">>, <<"j", "a", "t", "i">>>>,
    <<<<"U00DA", "U00A9", "U00DA", "U00BE", "U00D8", "U00A7", "U00D9", "U2020", "U00D8", "U00A7">>, <<"k", "h", "a", "n", "a">>>>,
    <<<<"U00D9", "U00BE", "U00DB", "U0152", "U00D9", "U2020", "U00D8", "U00A7">>, <<"p", "e", "e", "n", "a">>>>,
    <<<<"U00D8", "U00B3", "U00D9", "U02C6", "U00D9", "U2020", "U00D8", "U00A7">>, <<"s", "o", "n", "a">>>>,
    <<<<"U00D8", "U00AF", "U00DB", "U0152", "U00DA", "U00A9", "U00DA", "U00BE", "U00D9", "U2020", "U00D8", "U00A7">>, <<"d", "e", "k", "h", "n", "a">>>>,
    <<<<"U00D8", "U00A2", "U00D9", "U2020", "U00D8", "U00A7">>, <<"a", "a", "n", "a">>>>,
    <<<<"U00D8", "U00AF", "U00DB", "U0152", "U00D9", "U2020", "U00D8", "U00A7">>, <<"d", "e", "n", "a">>>>,
    <<<<"U00D9", "U201E", "U00DB", "U0152", "U00D9", "U2020", "U00D8", "U00A7">>, <<"l", "e", "n", "a">>>>,
    <<<<"U00D8", "U00A2", "U00D8", "U00AC">>, <<"a", "a", "j">>>>,
    <<<<"U00DA", "U00A9", "U00D9", "U201E">>, <<"k", "a", "l">>>>,
    <<<<"U00D8", "U00A7", "U00D8", "U00A8">>, <<"a", "b">>>>,
    <<<<"U00D9", "U00BE", "U00DA", "U00BE", "U00D8", "U00B1">>, <<"p", "h", "i", "r">>>>,
    <<<<"U00D8", "U00B5", "U00D8", "U00A8", "U00D8", "U00AD">>, <<"s", "u", "b", "a", "h">>>>,
    <<<<"U00D8", "U00B4", "U00D8", "U00A7", "U00D9", "U2026">>, <<"s", "h", "a", "a", "m">>>>,
    <<<<"U00D8", "U00B1", "U00D8", "U00A7", "U00D8", "U00AA">>, <<"r", "a", "a", "t">>>>,
    <<<<"U00D8", "U00AF", "U00D9", "U2020">>, <<"d", "i", "n">>>>,
    <<<<"U00DB", "U00D9", "U00D8", "U00AA", "U00DB">>, <<"h", "a", "f", "t", "a">>>>,
    <<<<"U00D9", "U2026", "U00DB", "U00DB", "U0152", "U00D9", "U2020", "U00DB">>, <<"m", "a", "h", "i", "n", "a">>>>,
    <<<<"U00D8", "U00B3", "U00D8", "U00A7", "U00D9", "U201E">>, <<"s", "a", "a", "l">>>>,
    <<<<"U00D9", "U00BE", "U00DB", "U0152", "U00D8", "U00A7", "U00D8", "U00B1">>, <<"p", "y", "a", "a", "r">>>>,
    <<<<"U00D9", "U2026", "U00D8", "U00AD", "U00D8", "U00A8", "U00D8", "U00AA">>, <<"m", "o", "h", "a", "b", "b", "a", "t">>>>,
    <<<<"U00D8", "U00AE", "U00D9", "U02C6", "U00D8", "U00B4", "U00DB", "U0152">>, <<"k", "h", "u", "s", "h", "i">>>>,
    <<<<"U00D8", "U00BA", "U00D9", "U2026">>, <<"g", "h", "a", "m">>>>,
    <<<<"U00D8", "U00B2", "U00D9", "U2020", "U00D8", "U00AF", "U00DA", "U00AF", "U00DB", "U0152">>, <<"z", "i", "n", "d", "a", "g", "i">>>>,
    <<<<"U00D8", "U00AF", "U00D9", "U201E">>, <<"d", "i", "l">>>>,
    <<<<"U00D8", "U00AF", "U00D9", "U2020", "U00DB", "U0152", "U00D8", "U00A7">>, <<"d", "u", "n", "i", "y", "a">>>>,
    <<<<"U00D8", "U00A7", "U00D9", "U201E", "U00D9", "U201E", "U00DB">>, <<"A", "l", "l", "a", "h">>>>,
    <<<<"U00D8", "U00A7", "U00D9", "U2020", "U00D8", "U00B3", "U00D8", "U00A7", "U00D9", "U2020">>, <<"i", "n", "s", "a", "a", "n">>>>,
    <<<<"U00D8", "U00A7", "U00DB", "U0152", "U00DA", "U00A9">>, <<"e", "k">>>>,
    <<<<"U00D8", "U00AF", "U00D9", "U02C6">>, <<"d", "o">>>>,
    <<<<"U00D8", "U00AA", "U00DB", "U0152", "U00D9", "U2020">>, <<"t", "e", "e", "n">>>>,
    <<<<"U00DA", "U2020", "U00D8", "U00A7", "U00D8", "U00B1">>, <<"c", "h", "a", "a", "r">>>>,
    <<<<"U00D9", "U00BE", "U00D8", "U00A7", "U00D9", "U2020", "U00DA", "U2020">>, <<"p", "a", "a", "n", "c", "h">>>>,
    <<<<"U00DA", "U2020", "U00DA", "U00BE">>, <<"c", "h", "h", "a", "y">>>>,
    <<<<"U00D8", "U00B3", "U00D8", "U00A7", "U00D8", "U00AA">>, <<"s", "a", "a", "t">>>>,
    <<<<"U00D8", "U00A2", "U00D9", "U00B9", "U00DA", "U00BE">>, <<"a", "a", "t", "h">>>>,
    <<<<"U00D9", "U2020", "U00D9", "U02C6">>, <<"n", "a", "u">>>>,
    <<<<"U00D8", "U00AF", "U00D8", "U00B3">>, <<"d", "a", "s">>>>,
    <<<<"U00D9", "U00B9", "U00DA", "U00A9", "U00D9", "U2020", "U00D8", "U00A7", "U00D9", "U201E", "U00D9", "U02C6", "U00D8", "U00AC", "U00DB", "U0152">>, <<"T", "e", "c", "h", "n", "o", "l", "o", "g", "y">>>>,
    <<<<"U00D9", "U00B9", "U00D9", "U02C6", "U00D9", "U201E">>, <<"t", "o", "o", "l">>>>,
    <<<<"U00D8", "U00A8", "U00D8", "U00A7", "U00DA", "U00A9", "U00D8", "U00B3">>, <<"b", "o", "x">>>>,
    <<<<"U00D8", "U00AE", "U00D9", "U201E", "U00D8", "U00A7">>, <<"s", "p", "a", "c", "e">>>> >>

URDU_CHAR_MAP == <<
    <<<<"U00D8", "U00A7">>, <<"a">>>>,
    <<<<"U00D8", "U00A2">>, <<"a", "a">>>>,
    <<<<"U00D8", "U00A8">>, <<"b">>>>,
    <<<<"U00D9", "U00BE">>, <<"p">>>>,
    <<<<"U00D8", "U00AA">>, <<"t">>>>,
    <<<<"U00D9", "U00B9">>, <<"t">>>>,
    <<<<"U00D8", "U00AB">>, <<"s">>>>,
    <<<<"U00D8", "U00AC">>, <<"j">>>>,
    <<<<"U00DA", "U2020">>, <<"c", "h">>>>,
    <<<<"U00D8", "U00AD">>, <<"h">>>>,
    <<<<"U00D8", "U00AE">>, <<"k", "h">>>>,
    <<<<"U00D8", "U00AF">>, <<"d">>>>,
    <<<<"U00DA", "U02C6">>, <<"d">>>>,
    <<<<"U00D8", "U00B0">>, <<"z">>>>,
    <<<<"U00D8", "U00B1">>, <<"r">>>>,
    <<<<"U00DA", "U2018">>, <<"r">>>>,
    <<<<"U00D8", "U00B2">>, <<"z">>>>,
    <<<<"U00DA", "U02DC">>, <<"z", "h">>>>,
    <<<<"U00D8", "U00B3">>, <<"s">>>>,
    <<<<"U00D8", "U00B4">>, <<"s", "h">>>>,
    <<<<"U00D8", "U00B5">>, <<"s">>>>,
    <<<<"U00D8", "U00B6">>, <<"z">>>>,
    <<<<"U00D8", "U00B7">>, <<"t">>>>,
    <<<<"U00D8", "U00B8">>, <<"z">>>>,
    <<<<"U00D8", "U00B9">>, <<"'">>>>,
    <<<<"U00D8", "U00BA">>, <<"g", "h">>>>,
    <<<<"U00D9">>, <<"f">>>>,
    <<<<"U00D9", "U201A">>, <<"q">>>>,
    <<<<"U00DA", "U00A9">>, <<"k">>>>,
    <<<<"U00DA", "U00AF">>, <<"g">>>>,
    <<<<"U00D9", "U201E">>, <<"l">>>>,
    <<<<"U00D9", "U2026">>, <<"m">>>>,
    <<<<"U00D9", "U2020">>, <<"n">>>>,
    <<<<"U00DA", "U00BA">>, <<"n">>>>,
    <<<<"U00D9", "U02C6">>, <<"o">>>>,
    <<<<"U00D8", "U00A4">>, <<"o">>>>,
    <<<<"U00DB">>, <<"h">>>>,
    <<<<"U00DA", "U00BE">>, <<"h">>>>,
    <<<<"U00DB", "U0152">>, <<"y">>>>,
    <<<<"U00DB", "U2019">>, <<"e">>>>,
    <<<<"U00D8", "U00A6">>, <<"i">>>>,
    <<<<"U00D8", "U00A1">>, <<"'">>>>,
    <<<<"U00D9", "U201C">>, <<>>>>,
    <<<<"U00D9", "U201D">>, <<>>>> >>

\* while core and not core[0].isalnum(): prefix += core[0]; core = core[1:]
RECURSIVE StripLeading(_, _)
StripLeading(prefix, core) ==
    IF core # <<>> /\ ~IsAlnum(core[1])
    THEN StripLeading(Append(prefix, core[1]), Tail(core))
    ELSE [prefix |-> prefix, core |-> core]

\* the suffix loop with the character appended instead of prepended
RECURSIVE StripTrailing_appended(_, _)
StripTrailing_appended(core, suffix) ==
    IF core # <<>> /\ ~IsAlnum(core[Len(core)])
    THEN StripTrailing_appended(SubSeq(core, 1, Len(core) - 1), Append(suffix, core[Len(core)]))
    ELSE [core |-> core, suffix |-> suffix]

\* while core and not core[-1].isalnum(): suffix = core[-1] + suffix; core = core[:-1]
RECURSIVE StripTrailing(_, _)
StripTrailing(core, suffix) ==
    IF core # <<>> /\ ~IsAlnum(core[Len(core)])
    THEN StripTrailing(SubSeq(core, 1, Len(core) - 1), <<core[Len(core)]>> \o suffix)
    ELSE [core |-> core, suffix |-> suffix]

\* for ch in core: roman.append(MAP.get(ch, ch)); ''.join(roman)
MapChars(table, core) == Concat([i \in 1..Len(core) |-> TableGet(table, <<core[i]>>, <<core[i]>>)])

\* the body of the loop over words: what is appended to out_words for w
romanize_urdu_word(w) ==
    IF TableHas(URDU_WORD_MAP, w) THEN TableGet(URDU_WORD_MAP, w, w)
    ELSE LET lead == StripLeading(<<>>, w)
             trail == StripTrailing(lead.core, <<>>)
             prefix == lead.prefix
             suffix == trail.suffix
             core == trail.core
         IN  IF core = <<>> THEN prefix \o suffix
             ELSE IF TableHas(URDU_WORD_MAP, core)
             THEN prefix \o TableGet(URDU_WORD_MAP, core, core) \o suffix
             ELSE prefix \o MapChars(URDU_CHAR_MAP, core) \o suffix

romanize_urdu_text(text) ==
    LET words == Split(text)
    IN  Join(<<" ">>, [i \in 1..Len(words) |-> romanize_urdu_word(words[i])])

(***************************************************************************)
(* romanize_arabic_like and romanize_hindi_text                            *)
(***************************************************************************)
ARABIC_CHAR_MAP == <<
    <<<<"U00D8", "U00A7">>, <<"a">>>>,
    <<<<"U00D8", "U00A8">>, <<"b">>>>,
    <<<<"U00D8", "U00AA">>, <<"t">>>>,
    <<<<"U00D8", "U00AB">>, <<"t", "h">>>>,
    <<<<"U00D8", "U00AC">>, <<"j">>>>,
    <<<<"U00D8", "U00AD">>, <<"h">>>>,
    <<<<"U00D8", "U00AE">>, <<"k", "h">>>>,
    <<<<"U00D8", "U00AF">>, <<"d">>>>,
    <<<<"U00D8", "U00B0">>, <<"d", "h">>>>,
    <<<<"U00D8", "U00B1">>, <<"r">>>>,
    <<<<"U00D8", "U00B2">>, <<"z">>>>,
    <<<<"U00D8", "U00B3">>, <<"s">>>>,
    <<<<"U00D8", "U00B4">>, <<"s", "h">>>>,
    <<<<"U00D8", "U00B5">>, <<"s">>>>,
    <<<<"U00D8", "U00B6">>, <<"d">>>>,
    <<<<"U00D8", "U00B7">>, <<"t">>>>,
    <<<<"U00D8", "U00B8">>, <<"z">>>>,
    <<<<"U00D8", "U00B9">>, <<"'">>>>,
    <<<<"U00D8", "U00BA">>, <<"g", "h">>>>,
    <<<<"U00D9">>, <<"f">>>>,
    <<<<"U00D9", "U201A">>, <<"q">>>>,
    <<<<"U00DA", "U00A9">>, <<"k">>>>,
    <<<<"U00DA", "U00AF">>, <<"g">>>>,
    <<<<"U00D9", "U201E">>, <<"l">>>>,
    <<<<"U00D9", "U2026">>, <<"m">>>>,
    <<<<"U00D9", "U2020">>, <<"n">>>>,
    <<<<"U00D9", "U02C6">>, <<"u">>>>,
    <<<<"U00D9", "U2021">>, <<"h">>>>,
    <<<<"U00DB", "U0152">>, <<"y">>>>,
    <<<<"U00D8", "U00A1">>, <<"'">>>>,
    <<<<"U00D8", "U00A3">>, <<"a">>>>,
    <<<<"U00D8", "U00A5">>, <<"i">>>>,
    <<<<"U00D8", "U00A4">>, <<"u">>>>,
    <<<<"U00D8", "U00A6">>, <<"i">>>>,
    <<<<"U00D9", "U2030">>, <<"a">>>>,
    <<<<"U00D8", "U00A2">>, <<"a", "a">>>>,
    <<<<"U00D8", "U00A9">>, <<"a">>>>,
    <<<<"U00DA", "U2020">>, <<"c", "h", "e">>>>,
    <<<<"U00D9", "U0160">>, <<"i">>>>,
    <<<<"U00D9", "U0192">>, <<"e", "k">>>>,
    <<<<"U00D9", "U00BE">>, <<"p">>>> >>

romanize_arabic_like(text) == MapChars(ARABIC_CHAR_MAP, text)

HINDI_WORD_MAP == <<
    <<<<"U00E0", "U00A4", "U00AE", "U00E0", "U00A5", "U02C6", "U00E0", "U00A4", "U201A">>, <<"m", "a", "i", "n">>>>,
    <<<<"U00E0", "U00A4", "U00A4", "U00E0", "U00A5", "U00E0", "U00A4", "U00AE">>, <<"t", "u", "m">>>>,
    <<<<"U00E0", "U00A4", "U2020", "U00E0", "U00A4", "U00AA">>, <<"a", "a", "p">>>>,
    <<<<"U00E0", "U00A4", "U00B9", "U00E0", "U00A4", "U00AE">>, <<"h", "u", "m">>>>,
    <<<<"U00E0", "U00A4", "U00B5", "U00E0", "U00A4", "U00B9">>, <<"v", "a", "h">>>>,
    <<<<"U00E0", "U00A4", "U00AF", "U00E0", "U00A5", "U2021">>, <<"y", "e">>>>,
    <<<<"U00E0", "U00A4", "U00AF", "U00E0", "U00A4", "U00B9">>, <<"y", "e", "h">>>>,
    <<<<"U00E0", "U00A4", "U00B5", "U00E0", "U00A5", "U2021">>, <<"v", "e">>>>,
    <<<<"U00E0", "U00A4", "U00AE", "U00E0", "U00A5", "U2021", "U00E0", "U00A4", "U00B0", "U00E0", "U00A4", "U00BE">>, <<"m", "e", "r", "a">>>>,
    <<<<"U00E0", "U00A4", "U00AE", "U00E0", "U00A5", "U2021", "U00E0", "U00A4", "U00B0", "U00E0", "U00A5", "U20AC">>, <<"m", "e", "r", "i">>>>,
    <<<<"U00E0", "U00A4", "U00AE", "U00E0", "U00A5", "U2021", "U00E0", "U00A4", "U00B0", "U00E0", "U00A5", "U2021">>, <<"m", "e", "r", "e">>>>,
    <<<<"U00E0", "U00A4", "U00B9", "U00E0", "U00A4", "U00AE", "U00E0", "U00A4", "U00BE", "U00E0", "U00A4", "U00B0", "U00E0", "U00A4", "U00BE">>, <<"h", "a", "m", "a", "r", "a">>>>,
    <<<<"U00E0", "U00A4", "U00B9", "U00E0", "U00A4", "U00AE", "U00E0", "U00A4", "U00BE", "U00E0", "U00A4", "U00B0", "U00E0", "U00A5", "U20AC">>, <<"h", "a", "m", "a", "r", "i">>>>,
    <<<<"U00E0", "U00A4", "U00B9", "U00E0", "U00A4", "U00AE", "U00E0", "U00A4", "U00BE", "U00E0", "U00A4", "U00B0", "U00E0", "U00A5", "U2021">>, <<"h", "a", "m", "a", "r", "e">>>>,
    <<<<"U00E0", "U00A4", "U00A8", "U00E0", "U00A4", "U00AE", "U00E0", "U00A4", "U00B8", "U00E0", "U00A5", "U00E0", "U00A4", "U00A4", "U00E0", "U00A5", "U2021">>, <<"n", "a", "m", "a", "s", "t", "e">>>>,
    <<<<"U00E0", "U00A4", "U00B6", "U00E0", "U00A5", "U00E0", "U00A4", "U00AD">>, <<"s", "h", "u", "b", "h">>>>,
    <<<<"U00E0", "U00A4", "U00AA", "U00E0", "U00A5", "U00E0", "U00A4", "U00B0", "U00E0", "U00A4", "U00A3", "U00E0", "U00A4", "U00BE", "U00E0", "U00A4", "U00AE">>, <<"p", "r", "a", "n", "a", "m">>>>,
    <<<<"U00E0", "U00A4", "U2022", "U00E0", "U00A5", "U02C6", "U00E0", "U00A4", "U00B8", "U00E0", "U00A5", "U2021">>, <<"k", "a", "i", "s", "e">>>>,
    <<<<"U00E0", "U00A4", "U00B9", "U00E0", "U00A5", "U2039">>, <<"h", "o">>>>,
    <<<<"U00E0", "U00A4", "U00B9", "U00E0", "U00A5", "U201A", "U00E0", "U00A4">>, <<"h", "o", "o", "n">>>>,
    <<<<"U00E0", "U00A4", "U00B9", "U00E0", "U00A5", "U02C6", "U00E0", "U00A4", "U201A">>, <<"h", "a", "i", "n">>>>,
    <<<<"U00E0", "U00A4", "U00B9", "U00E0", "U00A5", "U02C6">>, <<"h", "a", "i">>>>,
    <<<<"U00E0", "U00A4", "U00B9", "U00E0", "U00A4", "U00BE", "U00E0", "U00A4">>, <<"h", "a", "a", "n">>>>,
    <<<<"U00E0", "U00A4", "U00A8", "U00E0", "U00A4", "U00B9", "U00E0", "U00A5", "U20AC", "U00E0", "U00A4", "U201A">>, <<"n", "a", "h", "i", "n">>>>,
    <<<<"U00E0", "U00A4", "U00A0", "U00E0", "U00A5", "U20AC", "U00E0", "U00A4", "U2022">>, <<"t", "h", "e", "e", "k">>>>,
    <<<<"U00E0", "U00A4", "U2022", "U00E0", "U00A4", "U00B0", "U00E0", "U00A4", "U00A8", "U00E0", "U00A4", "U00BE">>, <<"k", "a", "r", "n", "a">>>>,
    <<<<"U00E0", "U00A4", "U2022", "U00E0", "U00A4", "U00B0", "U00E0", "U00A4", "U00A4", "U00E0", "U00A5", "U2021">>, <<"k", "a", "r", "t", "e">>>>,
    <<<<"U00E0", "U00A4", "U2022", "U00E0", "U00A4", "U00B0", "U00E0", "U00A4", "U00A4", "U00E0", "U00A5", "U20AC">>, <<"k", "a", "r", "t", "i", "i">>>>,
    <<<<"U00E0", "U00A4", "U2022", "U00E0", "U00A4", "U00B0">>, <<"k", "a", "r">>>>,
    <<<<"U00E0", "U00A4", "U0153", "U00E0", "U00A4", "U00BE", "U00E0", "U00A4", "U00A8", "U00E0", "U00A4", "U00BE">>, <<"j", "a", "n", "a">>>>,
    <<<<"U00E0", "U00A4", "U0153", "U00E0", "U00A4", "U00BE", "U00E0", "U00A4", "U00A4", "U00E0", "U00A4", "U00BE">>, <<"j", "a", "t", "a">>>>,
    <<<<"U00E0", "U00A4", "U0153", "U00E0", "U00A4", "U00BE", "U00E0", "U00A4", "U00A4", "U00E0", "U00A5", "U20AC">>, <<"j", "a", "t", "i">>>>,
    <<<<"U00E0", "U00A4", "U2013", "U00E0", "U00A4", "U00BE", "U00E0", "U00A4", "U00A8", "U00E0", "U00A4", "U00BE">>, <<"k", "h", "a", "n", "a">>>>,
    <<<<"U00E0", "U00A4", "U00AA", "U00E0", "U00A5", "U20AC", "U00E0", "U00A4", "U00A8", "U00E0", "U00A4", "U00BE">>, <<"p", "e", "e", "n", "a">>>>,
    <<<<"U00E0", "U00A4", "U00B8", "U00E0", "U00A5", "U2039", "U00E0", "U00A4", "U00A8", "U00E0", "U00A4", "U00BE">>, <<"s", "o", "n", "a">>>>,
    <<<<"U00E0", "U00A4", "U00A6", "U00E0", "U00A5", "U2021", "U00E0", "U00A4", "U2013", "U00E0", "U00A4", "U00A8", "U00E0", "U00A4", "U00BE">>, <<"d", "e", "k", "h", "n", "a">>>>,
    <<<<"U00E0", "U00A4", "U2020", "U00E0", "U00A4", "U00A8", "U00E0", "U00A4", "U00BE">>, <<"a", "a", "n", "a">>>>,
    <<<<"U00E0", "U00A4", "U00A6", "U00E0", "U00A5", "U2021", "U00E0", "U00A4", "U00A8", "U00E0", "U00A4", "U00BE">>, <<"d", "e", "n", "a">>>>,
    <<<<"U00E0", "U00A4", "U00B2", "U00E0", "U00A5", "U2021", "U00E0", "U00A4", "U00A8", "U00E0", "U00A4", "U00BE">>, <<"l", "e", "n", "a">>>>,
    <<<<"U00E0", "U00A4", "U2020", "U00E0", "U00A4", "U0153">>, <<"a", "a", "j">>>>,
    <<<<"U00E0", "U00A4", "U2022", "U00E0", "U00A4", "U00B2">>, <<"k", "a", "l">>>>,
    <<<<"U00E0", "U00A4", "U2026", "U00E0", "U00A4", "U00AC">>, <<"a", "b">>>>,
    <<<<"U00E0", "U00A4", "U00AB", "U00E0", "U00A4", "U00BF", "U00E0", "U00A4", "U00B0">>, <<"p", "h", "i", "r">>>>,
    <<<<"U00E0", "U00A4", "U00B8", "U00E0", "U00A5", "U00E0", "U00A4", "U00AC", "U00E0", "U00A4", "U00B9">>, <<"s", "u", "b", "a", "h">>>>,
    <<<<"U00E0", "U00A4", "U00B6", "U00E0", "U00A4", "U00BE", "U00E0", "U00A4", "U00AE">>, <<"s", "h", "a", "a", "m">>>>,
    <<<<"U00E0", "U00A4", "U00B0", "U00E0", "U00A4", "U00BE", "U00E0", "U00A4", "U00A4">>, <<"r", "a", "a", "t">>>>,
    <<<<"U00E0", "U00A4", "U00A6", "U00E0", "U00A4", "U00BF", "U00E0", "U00A4", "U00A8">>, <<"d", "i", "n">>>>,
    <<<<"U00E0", "U00A4", "U00B8", "U00E0", "U00A4", "U00AA", "U00E0", "U00A5", "U00E0", "U00A4", "U00A4", "U00E0", "U00A4", "U00BE", "U00E0", "U00A4", "U00B9">>, <<"s", "a", "p", "t", "a", "h">>>>,
    <<<<"U00E0", "U00A4", "U00AE", "U00E0", "U00A4", "U00B9", "U00E0", "U00A5", "U20AC", "U00E0", "U00A4", "U00A8", "U00E0", "U00A4", "U00BE">>, <<"m", "a", "h", "i", "n", "a">>>>,
    <<<<"U00E0", "U00A4", "U00B8", "U00E0", "U00A4", "U00BE", "U00E0", "U00A4", "U00B2">>, <<"s", "a", "a", "l">>>>,
    <<<<"U00E0", "U00A4", "U00AA", "U00E0", "U00A5", "U00E0", "U00A4", "U00AF", "U00E0", "U00A4", "U00BE", "U00E0", "U00A4", "U00B0">>, <<"p", "y", "a", "a", "r">>>>,
    <<<<"U00E0", "U00A4", "U00AA", "U00E0", "U00A5", "U00E0", "U00A4", "U00B0", "U00E0", "U00A5", "U2021", "U00E0", "U00A4", "U00AE">>, <<"p", "r", "e", "m">>>>,
    <<<<"U00E0", "U00A4", "U2013", "U00E0", "U00A5", "U00E0", "U00A4", "U00B6", "U00E0", "U00A5", "U20AC">>, <<"k", "h", "u", "s", "h", "i">>>>,
    <<<<"U00E0", "U00A4", "U00A6", "U00E0", "U00A5", "U00E0", "U00A4", "U2013">>, <<"d", "u", "k", "h">>>>,
    <<<<"U00E0", "U00A4", "U0153", "U00E0", "U00A5", "U20AC", "U00E0", "U00A4", "U00B5", "U00E0", "U00A4", "U00A8">>, <<"j", "e", "e", "v", "a", "n">>>>,
    <<<<"U00E0", "U00A4", "U00A6", "U00E0", "U00A4", "U00BF", "U00E0", "U00A4", "U00B2">>, <<"d", "i", "l">>>>,
    <<<<"U00E0", "U00A4", "U00A6", "U00E0", "U00A5", "U00E0", "U00A4", "U00A8", "U00E0", "U00A4", "U00BF", "U00E0", "U00A4", "U00AF", "U00E0", "U00A4", "U00BE">>, <<"d", "u", "n", "i", "y", "a">>>>,
    <<<<"U00E0", "U00A4", "U00AD", "U00E0", "U00A4", "U2014", "U00E0", "U00A4", "U00B5", "U00E0", "U00A4", "U00BE", "U00E0", "U00A4", "U00A8">>, <<"b", "h", "a", "g", "w", "a", "n">>>>,
    <<<<"U00E0", "U00A4", "U00E0", "U00A4", "U2022">>, <<"e", "k">>>>,
    <<<<"U00E0", "U00A4", "U00A6", "U00E0", "U00A5", "U2039">>, <<"d", "o">>>>,
    <<<<"U00E0", "U00A4", "U00A4", "U00E0", "U00A5", "U20AC", "U00E0", "U00A4", "U00A8">>, <<"t", "e", "e", "n">>>>,
    <<<<"U00E0", "U00A4", "U0161", "U00E0", "U00A4", "U00BE", "U00E0", "U00A4", "U00B0">>, <<"c", "h", "a", "a", "r">>>>,
    <<<<"U00E0", "U00A4", "U00AA", "U00E0", "U00A4", "U00BE", "U00E0", "U00A4", "U201A", "U00E0", "U00A4", "U0161">>, <<"p", "a", "a", "n", "c", "h">>>>,
    <<<<"U00E0", "U00A4", "U203A", "U00E0", "U00A4", "U00B9">>, <<"c", "h", "h", "a", "h">>>>,
    <<<<"U00E0", "U00A4", "U00B8", "U00E0", "U00A4", "U00BE", "U00E0", "U00A4", "U00A4">>, <<"s", "a", "a", "t">>>>,
    <<<<"U00E0", "U00A4", "U2020", "U00E0", "U00A4", "U00A0">>, <<"a", "a", "t", "h">>>>,
    <<<<"U00E0", "U00A4", "U00A8", "U00E0", "U00A5", "U0152">>, <<"n", "a", "u">>>>,
    <<<<"U00E0", "U00A4", "U00A6", "U00E0", "U00A4", "U00B8">>, <<"d", "a", "s">>>> >>

HINDI_CHAR_MAP == <<
    <<<<"U00E0", "U00A4", "U2026">>, <<"a">>>>,
    <<<<"U00E0", "U00A4", "U2020">>, <<"a", "a">>>>,
    <<<<"U00E0", "U00A4", "U2021">>, <<"i">>>>,
    <<<<"U00E0", "U00A4", "U02C6">>, <<"e", "e">>>>,
    <<<<"U00E0", "U00A4", "U2030">>, <<"u">>>>,
    <<<<"U00E0", "U00A4", "U0160">>, <<"o", "o">>>>,
    <<<<"U00E0", "U00A4", "U2039">>, <<"r", "i">>>>,
    <<<<"U00E0", "U00A5", "U00A0">>, <<"r", "i">>>>,
    <<<<"U00E0", "U00A4">>, <<"n">>>>,
    <<<<"U00E0", "U00A4", "U201C">>, <<"o">>>>,
    <<<<"U00E0", "U00A4", "U201D">>, <<"a", "u">>>>,
    <<<<"U00E0", "U00A5">>, <<>>>>,
    <<<<"U00E0", "U00A4", "U2022">>, <<"k">>>>,
    <<<<"U00E0", "U00A4", "U2013">>, <<"k", "h">>>>,
    <<<<"U00E0", "U00A4", "U2014">>, <<"g">>>>,
    <<<<"U00E0", "U00A4", "U02DC">>, <<"g", "h">>>>,
    <<<<"U00E0", "U00A4", "U2122">>, <<"n">>>>,
    <<<<"U00E0", "U00A4", "U0161">>, <<"c", "h">>>>,
    <<<<"U00E0", "U00A4", "U203A">>, <<"c", "h", "h">>>>,
    <<<<"U00E0", "U00A4", "U0153">>, <<"j">>>>,
    <<<<"U00E0", "U00A4", "U017E">>, <<"n">>>>,
    <<<<"U00E0", "U00A4", "U0178">>, <<"t">>>>,
    <<<<"U00E0", "U00A4", "U00A0">>, <<"t", "h">>>>,
    <<<<"U00E0", "U00A4", "U00A1">>, <<"d">>>>,
    <<<<"U00E0", "U00A4", "U00A2">>, <<"d", "h">>>>,
    <<<<"U00E0", "U00A4", "U00A3">>, <<"n">>>>,
    <<<<"U00E0", "U00A4", "U00A4">>, <<"t">>>>,
    <<<<"U00E0", "U00A4", "U00A5">>, <<"t", "h">>>>,
    <<<<"U00E0", "U00A4", "U00A6">>, <<"d">>>>,
    <<<<"U00E0", "U00A4", "U00A7">>, <<"d", "h">>>>,
    <<<<"U00E0", "U00A4", "U00A8">>, <<"n">>>>,
    <<<<"U00E0", "U00A4", "U00AA">>, <<"p">>>>,
    <<<<"U00E0", "U00A4", "U00AB">>, <<"p", "h">>>>,
    <<<<"U00E0", "U00A4", "U00AC">>, <<"b">>>>,
    <<<<"U00E0", "U00A4", "U00AD">>, <<"b", "h">>>>,
    <<<<"U00E0", "U00A4", "U00AE">>, <<"m">>>>,
    <<<<"U00E0", "U00A4", "U00AF">>, <<"y">>>>,
    <<<<"U00E0", "U00A4", "U00B0">>, <<"r">>>>,
    <<<<"U00E0", "U00A4", "U00B2">>, <<"l">>>>,
    <<<<"U00E0", "U00A4", "U00B5">>, <<"v">>>>,
    <<<<"U00E0", "U00A4", "U00B6">>, <<"s", "h">>>>,
    <<<<"U00E0", "U00A4", "U00B7">>, <<"s", "h">>>>,
    <<<<"U00E0", "U00A4", "U00B8">>, <<"s">>>>,
    <<<<"U00E0", "U00A4", "U00B9">>, <<"h">>>>,
    <<<<"U00E0", "U00A4", "U2022", "U00E0", "U00A5", "U00E0", "U00A4", "U00B7">>, <<"k", "s", "h">>>>,
    <<<<"U00E0", "U00A4", "U00A4", "U00E0", "U00A5", "U00E0", "U00A4", "U00B0">>, <<"t", "r">>>>,
    <<<<"U00E0", "U00A4", "U0153", "U00E0", "U00A5", "U00E0", "U00A4", "U017E">>, <<"g", "y">>>>,
    <<<<"U00E0", "U00A4", "U2022", "U00E0", "U00A4", "U00BC">>, <<"q">>>>,
    <<<<"U00E0", "U00A4", "U2013", "U00E0", "U00A4", "U00BC">>, <<"k", "h">>>>,
    <<<<"U00E0", "U00A4", "U2014", "U00E0", "U00A4", "U00BC">>, <<"g", "h">>>>,
    <<<<"U00E0", "U00A4", "U0153", "U00E0", "U00A4", "U00BC">>, <<"z">>>>,
    <<<<"U00E0", "U00A4", "U00A1", "U00E0", "U00A4", "U00BC">>, <<"r">>>>,
    <<<<"U00E0", "U00A4", "U00A2", "U00E0", "U00A4", "U00BC">>, <<"r", "h">>>>,
    <<<<"U00E0", "U00A4", "U00AB", "U00E0", "U00A4", "U00BC">>, <<"f">>>>,
    <<<<"U00E0", "U00A4", "U00E0", "U00A4", "U00BC">>, <<"z", "h">>>>,
    <<<<"U00E0", "U00A4", "U201A">>, <<"n">>>>,
    <<<<"U00E0", "U00A4", "U0192">>, <<"h">>>>,
    <<<<"U00E0", "U00A4", "U00BC">>, <<>>>>,
    <<<<"U00E0", "U00A5", "U0152">>, <<"a", "u">>>>,
    <<<<"U00E0", "U00A5", "U02C6">>, <<"a", "i">>>>,
    <<<<"U00E0", "U00A5", "U2030">>, <<"o">>>>,
    <<<<"U00E0", "U00A5", "U2020">>, <<"e">>>>,
    <<<<"U00E0", "U00A5", "U0160">>, <<"o">>>> >>

romanize_hindi_word(w) ==
    IF TableHas(HINDI_WORD_MAP, w) THEN TableGet(HINDI_WORD_MAP, w, w)
    ELSE MapChars(HINDI_CHAR_MAP, w)

romanize_hindi_text(text) ==
    LET words == Split(text)
    IN  Join(<<" ">>, [i \in 1..Len(words) |-> romanize_hindi_word(words[i])])

(***************************************************************************)
(* romanize_text                                                           *)
(***************************************************************************)
\* What one call of an optional engine does: whether constructing the engine
\* object raises (pykakasi.kakasi(), the only engine built inside the call),
\* whether the conversion raises, and the romanization it returns otherwise.
EngineOuts == {<<"m", "a", "i", "M">>}
EngineOutcomes ==
    {e \in [construct_raises : BOOLEAN, call_raises : BOOLEAN, out : EngineOuts] :
        ~(e.construct_raises /\ e.call_raises)}

\* A return of value v; Raised: an exception leaves the function.  constructed
\* counts the engine objects the call built.
Returned(v) == [raised |-> FALSE, value |-> v, constructed |-> 0]
Raised(n) == [raised |-> TRUE, value |-> <<>>, constructed |-> n]

IsJapanese(lc) == StartsWith(lc, <<"j", "a">>) \/ lc = <<"j", "a", "p", "a", "n", "e", "s", "e">>
IsChinese(lc) == StartsWith(lc, <<"z", "h">>)
IsKorean(lc) == StartsWith(lc, <<"k", "o">>) \/ lc = <<"k", "o", "r", "e", "a", "n">>
IsUrdu_prefix(lc) == StartsWith(lc, <<"u", "r">>)
IsUrdu(lc) == lc = <<"u", "r">> \/ lc = <<"u", "r", "d", "u">>
IsHindi(lc) == lc = <<"h", "i">> \/ lc = <<"h", "i", "n", "d", "i">>
IsArabicLike(lc) == lc \in {<<"a", "r">>, <<"a", "r", "a", "b", "i", "c">>, <<"f", "a">>, <<"p", "e", "r", "s", "i", "a", "n">>, <<"f", "a", "r", "s", "i">>}
IsCyrillic(lc) == lc \in {<<"r", "u">>, <<"s", "r">>, <<"c", "y", "r", "i", "l", "l", "i", "c">>, <<"r", "u", "s", "s", "i", "a", "n">>}
IsGreek(lc) == lc \in {<<"e", "l">>, <<"g", "r", "e", "e", "k">>}
IsLatin(lc) == lc \in {<<"e", "n">>, <<"f", "r">>, <<"e", "s">>, <<"i", "t">>, <<"l", "a">>, <<"d", "e">>, <<"p", "t">>,
                       <<"s", "p", "a", "n", "i", "s", "h">>, <<"f", "r", "e", "n", "c", "h">>, <<"i", "t", "a", "l", "i", "a", "n">>, <<"l", "a", "t", "i", "n">>}

\* 'if handle: try: return engine(text) except Exception: return text' and
\* 'return text' after it
GuardedEngine(available, text, eng) ==
    IF available /\ ~eng.call_raises THEN Returned(eng.out) ELSE Returned(text)

\* h: the handles; eng: what the engine does if this call reaches it
romanize_text(text, lang_code, h, eng) ==
    IF text = <<>> THEN Returned(text)
    ELSE LET lc == Lower(lang_code)
         IN  IF IsJapanese(lc)
             THEN IF h.pykakasi
                  THEN IF eng.construct_raises THEN Raised(1)
                       ELSE IF eng.call_raises THEN Raised(1)
                       ELSE [raised |-> FALSE, value |-> eng.out, constructed |-> 1]
                  ELSE Returned(text)
             ELSE IF IsChinese(lc) THEN GuardedEngine(h.lazy_pinyin, text, eng)
             ELSE IF IsKorean(lc) THEN GuardedEngine(h.korean_trans, text, eng)
             ELSE IF IsUrdu(lc) THEN Returned(romanize_urdu_text(text))
             ELSE IF IsHindi(lc)
             THEN IF h.indic /\ ~eng.call_raises
                  THEN Returned(clean_hinglish(eng.out))
                  ELSE Returned(romanize_hindi_text(text))
             ELSE IF IsArabicLike(lc) THEN Returned(romanize_arabic_like(text))
             ELSE IF IsCyrillic(lc) THEN GuardedEngine(h.translit, text, eng)
             ELSE IF IsGreek(lc) THEN GuardedEngine(h.translit, text, eng)
             ELSE IF IsLatin(lc) THEN Returned(text)
             ELSE Returned(text)

(***************************************************************************)
(* translate_and_romanize                                                  *)
(***************************************************************************)
\* What GoogleTranslator(...).translate(text) does: returns out, or raises an
\* exception whose message is msg.
diagnostic(msg) == <<"(", "t", "r", "a", "n", "s", "l", "a", "t", "i", "o", "n", " ", "e", "r", "r", "o", "r", ":", " ">> \o msg \o <<")">>

\* classify, trans, eng: what the classifier, the translation service and the
\* engine do in this call.  classified and translations list the calls made to
\* the classifier and to the translation service.
translate_and_romanize(text, target_lang_code, h, classify, trans, eng) ==
    LET det == detect_language_safely(text, classify)
        src == det.value
        tgt == normalize_target_lang(target_lang_code)
        translated == IF trans.ok THEN trans.out ELSE diagnostic(trans.msg)
        roman == romanize_text(translated, tgt, h, eng)
    IN  [raised |-> roman.raised,
         src |-> src, translated |-> translated, roman |-> roman.value,
         classified |-> IF det.classified THEN <<text>> ELSE <<>>,
         translations |-> <<[text |-> text, target |-> tgt]>>,
         constructed |-> roman.constructed]

(***************************************************************************)
(* Values of the variables a specification does not use.                   *)
(***************************************************************************)
NoHandles == [pykakasi |-> FALSE, lazy_pinyin |-> FALSE, translit |-> FALSE,
              korean_trans |-> FALSE, indic |-> FALSE]
NoCli == [pc |-> "off"]
NoRequest == [kind |-> "none"]
NotCalled == [done |-> FALSE]

(***************************************************************************)
(* Direct calls of normalize_target_lang.                                  *)
(***************************************************************************)
NormAlphabet == {" ", "U0009", "z", "h", "e", "n", "Z"}

InitNormalize ==
    /\ handles = NoHandles /\ cli = NoCli /\ last = NoRequest
    /\ arg \in [inp : SeqsUpTo(NormAlphabet, MaxCodeLen)]
    /\ ret = NotCalled

NormalizeCall ==
    /\ ~ret.done
    /\ ret' = [done |-> TRUE, value |-> normalize_target_lang(arg.inp)]
    /\ UNCHANGED <<handles, cli, last, arg>>

NextNormalize == NormalizeCall

SpecNormalize == InitNormalize /\ [][NextNormalize]_vars

\* C3: normalize_target_lang returns 'en' for every input that is empty or
\* consists only of whitespace.
C3_BlankGivesDefault == (ret.done /\ IsBlank(arg.inp)) => ret.value = DefaultLang

(***************************************************************************)
(* Direct calls of detect_language_safely.                                 *)
(***************************************************************************)
DetectAlphabet == {"h", "i", " ", "H", "U00E9"}

\* ten ASCII characters and one other (10/11 > 0.9), nine and one (9/10 = 0.9)
LongTexts == {<<" ", "h", "i", " ", "h", "i", " ", "h", "i", " ", "U00E9">>, <<" ", "h", "i", " ", "h", "i", " ", "h", "i", "U00E9">>, <<"h", "i", " ", "t", "h", "e", "r", "e">>, <<"H", "e", "l", "l", "o", " ", "y", "o", "u">>}

DetectTexts == SeqsUpTo(DetectAlphabet, MaxDetectLen) \cup LongTexts

ClassifierLangs == {<<"e", "n">>, <<"f", "r">>, <<"h", "i">>}
ClassifierConfs == {0, 89, 90, 100}
ClassifierAnswers == [lang : ClassifierLangs, conf : ClassifierConfs]

InitDetect ==
    /\ handles = NoHandles /\ cli = NoCli /\ last = NoRequest
    /\ arg \in [text : DetectTexts]
    /\ ret = NotCalled

DetectCall ==
    /\ ~ret.done
    /\ \E classify \in ClassifierAnswers :
          LET r == detect_language_safely(arg.text, classify)
          IN  ret' = [done |-> TRUE, value |-> r.value, classified |-> r.classified,
                      classify |-> classify]
    /\ UNCHANGED <<handles, cli, last, arg>>

NextDetect == DetectCall

SpecDetect == InitDetect /\ [][NextDetect]_vars

AllAscii(text) == \A i \in 1..Len(text) : IsAscii(text[i])

\* C5: for non-blank text detect_language_safely returns the classifier's code
\* or 'en', and the classifier's code whenever confidence >= 0.90; for empty or
\* whitespace-only text it returns 'unknown' without calling the classifier.
C5_DetectContract ==
    ret.done =>
        IF IsBlank(arg.text)
        THEN ret.value = UnknownLang /\ ~ret.classified
        ELSE /\ ret.classified
             /\ ret.value \in {ret.classify.lang, <<"e", "n">>}
             /\ (ret.classify.conf >= ConfThreshold => ret.value = ret.classify.lang)

C5_Witness ==
    /\ ret.done /\ ~IsBlank(arg.text)
    /\ Contains(Lower(arg.text), <<" ", "h", "i", " ">>) /\ AllAscii(arg.text)
    /\ ret.classify.conf = ConfThreshold
    /\ ret.classify.lang = <<"f", "r">>
    /\ ret.value = <<"f", "r">>

UrduAlphabet == {"U00DB", "U00D9", "U02C6", "U2026", "!", " "}

InitUrdu ==
    /\ handles = NoHandles /\ cli = NoCli /\ last = NoRequest
    /\ arg \in [text : SeqsUpTo(UrduAlphabet, MaxUrduLen)]
    /\ ret = NotCalled

UrduCall ==
    /\ ~ret.done
    /\ ret' = [done |-> TRUE, value |-> romanize_urdu_text(arg.text)]
    /\ UNCHANGED <<handles, cli, last, arg>>

NextUrdu == UrduCall

SpecUrdu == InitUrdu /\ [][NextUrdu]_vars

\* the length of the longest leading run of non-alphanumeric characters of w
LeadingRun(w) ==
    CHOOSE n \in 0..Len(w) :
        /\ \A j \in 1..n : ~IsAlnum(w[j])
        /\ (n < Len(w) => IsAlnum(w[n + 1]))

\* the length of the longest trailing run of non-alphanumeric characters of w
TrailingRun(w) ==
    CHOOSE n \in 0..Len(w) :
        /\ \A j \in (Len(w) - n + 1)..Len(w) : ~IsAlnum(w[j])
        /\ (n < Len(w) => IsAlnum(w[Len(w) - n]))

\* what C9 says is emitted for a token that is not a word-map key
ExpectedUrduToken(w) ==
    IF LeadingRun(w) = Len(w) THEN w
    ELSE LET prefix == SubSeq(w, 1, LeadingRun(w))
             suffix == SubSeq(w, Len(w) - TrailingRun(w) + 1, Len(w))
             core == SubSeq(w, LeadingRun(w) + 1, Len(w) - TrailingRun(w))
             body == IF TableHas(URDU_WORD_MAP, core)
                     THEN TableGet(URDU_WORD_MAP, core, core)
                     ELSE Concat([i \in 1..Len(core) |->
                                    TableGet(URDU_CHAR_MAP, <<core[i]>>, <<core[i]>>)])
         IN  prefix \o body \o suffix

\* the tokens of s between single spaces (the inverse of ' '.join)
RECURSIVE SpaceSeparated(_, _, _)
SpaceSeparated(s, i, cur) ==
    IF i > Len(s) THEN <<cur>>
    ELSE IF s[i] = " " THEN <<cur>> \o SpaceSeparated(s, i + 1, <<>>)
    ELSE SpaceSeparated(s, i + 1, Append(cur, s[i]))

OutTokens(s) == IF s = <<>> THEN <<>> ELSE SpaceSeparated(s, 1, <<>>)

\* C9: romanize_urdu_text emits one output token per whitespace-separated input
\* token, joined by single spaces; a token that is not a word-map key comes out
\* as prefix + body + suffix (its maximal leading and trailing non-alphanumeric
\* runs unchanged around the word-map value of the core, else the core mapped
\* character by character), and a token with an empty core comes out unchanged.
C9_UrduTokens ==
    ret.done =>
        LET toks == Split(arg.text)
            outs == OutTokens(ret.value)
        IN  /\ Len(outs) = Len(toks)
            /\ \A i \in 1..Len(toks) :
                  /\ outs[i] # <<>>
                  /\ ~TableHas(URDU_WORD_MAP, toks[i]) => outs[i] = ExpectedUrduToken(toks[i])

\* the token "!" U+00DB U+2026: a prefix, a core the character map rewrites to
\* "h", and a suffix
C9_Witness ==
    /\ ret.done
    /\ arg.text = <<"!", "U00DB", "U2026">>
    /\ ~TableHas(URDU_WORD_MAP, arg.text)
    /\ ret.value = <<"!", "h", "U2026">>

(***************************************************************************)
(* Direct calls of clean_hinglish.                                         *)
(***************************************************************************)
\* the keys of the substitution table and two words that are not keys
HinglishWords == {replacements[i][1] : i \in 1..Len(replacements)} \cup {<<"k", "A", "m", "a">>, <<"x">>}

InitHinglish ==
    /\ handles = NoHandles /\ cli = NoCli /\ last = NoRequest
    /\ arg \in [words : UNION {[1..k -> HinglishWords] : k \in 1..MaxWords}]
    /\ ret = NotCalled

HinglishCall ==
    /\ ~ret.done
    /\ ret' = [done |-> TRUE, value |-> clean_hinglish(Join(<<" ">>, arg.words))]
    /\ UNCHANGED <<handles, cli, last, arg>>

NextHinglish == HinglishCall

SpecHinglish == InitHinglish /\ [][NextHinglish]_vars

\* C10: every entry key -> value of the table is applied: where the key stands
\* as a whole word of the input, the output has the value (lowercased and
\* vowel-collapsed) in its place.
C10_EveryEntryApplied ==
    ret.done =>
        LET outs == OutTokens(ret.value)
        IN  /\ Len(outs) = Len(arg.words)
            /\ \A i \in 1..Len(arg.words) :
                  TableHas(replacements, arg.words[i]) =>
                      outs[i] = CollapseVowels(Lower(TableGet(replacements, arg.words[i], <<>>)))

(***************************************************************************)
(* Direct calls of romanize_text, under every outcome of the imports.      *)
(***************************************************************************)
\* the module's try/import blocks: each handle is set or left None
HandleValues == [pykakasi : BOOLEAN, lazy_pinyin : BOOLEAN, translit : BOOLEAN,
                 korean_trans : BOOLEAN, indic : BOOLEAN]

RomanizeTexts == {<<>>, <<"U00D9", "U02C6", "U00DB", "!">>, <<"h", "i", " ", "y", "o", "u">>}

RomanizeCodes == {<<>>, <<"j", "a">>, <<"j", "a", "-", "J", "P">>, <<"J", "a", "p", "a", "n", "e", "s", "e">>, <<"z", "h", "-", "C", "N">>, <<"k", "o">>, <<"k", "o", "r", "e", "a", "n">>,
                  <<"u", "r">>, <<"u", "r", "-", "P", "K">>, <<"h", "i">>, <<"f", "a">>, <<"r", "u">>, <<"c", "y", "r", "i", "l", "l", "i", "c">>, <<"e", "l">>,
                  <<"g", "r", "e", "e", "k">>, <<"e", "n">>, <<"n", "l">>, <<"x", "x">>}

InitRomanize ==
    /\ handles \in HandleValues
    /\ cli = NoCli /\ last = NoRequest
    /\ arg \in [text : RomanizeTexts, code : RomanizeCodes]
    /\ ret = NotCalled

RomanizeCall ==
    /\ ~ret.done
    /\ \E eng \in EngineOutcomes :
          LET r == romanize_text(arg.text, arg.code, handles, eng)
          IN  ret' = [done |-> TRUE, raised |-> r.raised, value |-> r.value, eng |-> eng]
    /\ UNCHANGED <<handles, cli, last, arg>>

NextRomanize == RomanizeCall

SpecRomanize == InitRomanize /\ [][NextRomanize]_vars

\* the adapter a code selects, for the five engine-backed adapters
Adapter(code) ==
    LET lc == Lower(code)
    IN  IF StartsWith(lc, <<"j", "a">>) \/ lc = <<"j", "a", "p", "a", "n", "e", "s", "e">> THEN "japanese"
        ELSE IF StartsWith(lc, <<"z", "h">>) THEN "chinese"
        ELSE IF StartsWith(lc, <<"k", "o">>) \/ lc = <<"k", "o", "r", "e", "a", "n">> THEN "korean"
        ELSE IF lc \in {<<"r", "u">>, <<"s", "r">>, <<"c", "y", "r", "i", "l", "l", "i", "c">>, <<"r", "u", "s", "s", "i", "a", "n">>} THEN "cyrillic"
        ELSE IF lc \in {<<"e", "l">>, <<"g", "r", "e", "e", "k">>} THEN "greek"
        ELSE "other"

EngineAvailable(adapter, h) ==
    CASE adapter = "japanese" -> h.pykakasi
      [] adapter = "chinese" -> h.lazy_pinyin
      [] adapter = "korean" -> h.korean_trans
      [] adapter = "cyrillic" -> h.translit
      [] adapter = "greek" -> h.translit
      [] OTHER -> FALSE

EngineBacked == {"japanese", "chinese", "korean", "cyrillic", "greek"}

\* C1: for each of the five engine-backed adapters, if the engine is
\* unavailable, or raises during the call (its construction included),
\* romanize_text returns the text unchanged and no error reaches the caller.
C1_EngineFailurePassesThrough ==
    (/\ ret.done
     /\ Adapter(arg.code) \in EngineBacked
     /\ \/ ~EngineAvailable(Adapter(arg.code), handles)
        \/ ret.eng.call_raises
        \/ (Adapter(arg.code) = "japanese" /\ ret.eng.construct_raises))
    => (~ret.raised /\ ret.value = arg.text)

\* the codes and names some branch of the dispatcher tests for
Recognized(code) ==
    LET lc == Lower(code)
    IN  \/ StartsWith(lc, <<"j", "a">>) \/ StartsWith(lc, <<"z", "h">>) \/ StartsWith(lc, <<"k", "o">>)
        \/ lc \in {<<"j", "a", "p", "a", "n", "e", "s", "e">>, <<"k", "o", "r", "e", "a", "n">>, <<"u", "r">>, <<"u", "r", "d", "u">>, <<"h", "i">>, <<"h", "i", "n", "d", "i">>,
                   <<"a", "r">>, <<"a", "r", "a", "b", "i", "c">>, <<"f", "a">>, <<"p", "e", "r", "s", "i", "a", "n">>, <<"f", "a", "r", "s", "i">>,
                   <<"r", "u">>, <<"s", "r">>, <<"c", "y", "r", "i", "l", "l", "i", "c">>, <<"r", "u", "s", "s", "i", "a", "n">>, <<"e", "l">>, <<"g", "r", "e", "e", "k">>,
                   <<"e", "n">>, <<"f", "r">>, <<"e", "s">>, <<"i", "t">>, <<"l", "a">>, <<"d", "e">>, <<"p", "t">>,
                   <<"s", "p", "a", "n", "i", "s", "h">>, <<"f", "r", "e", "n", "c", "h">>, <<"i", "t", "a", "l", "i", "a", "n">>, <<"l", "a", "t", "i", "n">>}

\* C4: for a target code the dispatcher does not recognize romanize_text
\* returns the text unchanged, whatever engines are available; for empty text
\* it returns the text unchanged for every code.
C4_UnrecognizedPassesThrough ==
    (ret.done /\ (~Recognized(arg.code) \/ arg.text = <<>>))
    => (~ret.raised /\ ret.value = arg.text)

\* an unrecognized code that shares a prefix with a recognized one, on a text
\* the Urdu romanizer would rewrite, with every engine available
C4_Witness ==
    /\ ret.done
    /\ arg.code = <<"u", "r", "-", "P", "K">>
    /\ arg.text = <<"U00D9", "U02C6", "U00DB", "!">>
    /\ \A f \in DOMAIN handles : handles[f]
    /\ ~ret.eng.call_raises
    /\ ret.value = arg.text

(***************************************************************************)
(* The process: the imports at start, then HTTP requests to                *)
(* POST /api/translate and rounds of prompt_loop, in any order.            *)
(***************************************************************************)
\* the texts a client posts and the lines a user types
Texts == {<<>>, <<" ", "U0009">>, <<" ", "h", "i", " ", "y", "o", "u", " ">>}

Targets == {<<>>, <<" ">>, <<"J", "a", "p", "a", "n", "e", "s", "e">>, <<"h", "i", "n", "d", "i">>, <<"x", "x">>}

Answers == {<<" ", "Y", "E", "S", " ">>, <<"n", "o">>}

\* what the classifier and the translation service may do in one call
ProcessClassifierAnswers == [lang : {<<"f", "r">>}, conf : {89, 90}]
TranslationOutcomes ==
    {[ok |-> TRUE, out |-> <<"U00D9", "U02C6", "U00DB", "!">>, msg |-> <<>>],
     [ok |-> FALSE, out |-> <<>>, msg |-> <<"b", "o", "o", "m">>]}

Init ==
    /\ handles \in HandleValues
    /\ cli = [pc |-> "text", text |-> <<>>, said |-> "banner"]
    /\ last = NoRequest
    /\ arg = <<>>
    /\ ret = NotCalled

\* 'if not text' in place of 'if not text.strip()'
HttpShortCircuits_nostrip(text) == text = <<>>

\* translate_api: 'if not text.strip()'
HttpShortCircuits(text) == Strip(text) = <<>>

\* the record of one handled request: what came in, what the pipeline was
\* called with, the calls it made, and what went out
Handled(kind, text, target, calls, p, out) ==
    [kind |-> kind, text |-> text, target |-> target, pipeline |-> calls,
     classified |-> p.classified, translations |-> p.translations,
     constructed |-> p.constructed, raised |-> p.raised, out |-> out]

NoPipeline == [classified |-> <<>>, translations |-> <<>>, constructed |-> 0, raised |-> FALSE]

\* POST /api/translate with body {text, target}
translate_api(text, target) ==
    /\ IF HttpShortCircuits(text)
       THEN last' = Handled("http", text, target, <<>>, NoPipeline,
                            [status |-> 200, source_lang |-> <<"-">>,
                             translated |-> <<>>, romanized |-> <<>>])
       ELSE \E classify \in ProcessClassifierAnswers, trans \in TranslationOutcomes,
               eng \in EngineOutcomes :
               \E p \in {translate_and_romanize(text, target, handles, classify, trans, eng)} :
                   last' = Handled("http", text, target,
                                   <<[text |-> text, target |-> target, failed |-> ~trans.ok]>>, p,
                                   IF p.raised
                                   THEN [status |-> 500, source_lang |-> <<>>,
                                         translated |-> <<>>, romanized |-> <<>>]
                                   ELSE [status |-> 200, source_lang |-> p.src,
                                         translated |-> p.translated, romanized |-> p.roman])
    /\ UNCHANGED <<handles, cli, arg, ret>>

\* prompt_loop at input("Enter text: ")
CliReadText(line) ==
    /\ cli.pc = "text"
    /\ LET text == Strip(line)
       IN  IF text = <<>>
           THEN cli' = [pc |-> "text", text |-> <<>>, said |-> "no_text"]
           ELSE cli' = [pc |-> "target", text |-> text, said |-> "ask_target"]
    /\ UNCHANGED <<handles, last, arg, ret>>

\* prompt_loop at input("Translate into which language ..."), to the prints
CliReadTarget(line) ==
    /\ cli.pc = "target"
    /\ LET stripped == Strip(line)
           target_input == IF stripped = <<>> THEN <<"e", "n">> ELSE stripped
       IN  \E classify \in ProcessClassifierAnswers, trans \in TranslationOutcomes,
              eng \in EngineOutcomes :
              \E p \in {translate_and_romanize(cli.text, target_input, handles, classify, trans, eng)} :
                  /\ last' = Handled("cli", cli.text, target_input,
                                     <<[text |-> cli.text, target |-> target_input,
                                        failed |-> ~trans.ok]>>, p,
                                     IF p.raised
                                     THEN [status |-> 1, source_lang |-> <<>>,
                                           translated |-> <<>>, romanized |-> <<>>]
                                     ELSE [status |-> 0, source_lang |-> p.src,
                                           translated |-> p.translated, romanized |-> p.roman])
                  /\ cli' = IF p.raised
                            THEN [pc |-> "crashed", text |-> cli.text, said |-> "traceback"]
                            ELSE [pc |-> "again", text |-> cli.text, said |-> "result"]
    /\ UNCHANGED <<handles, arg, ret>>

\* prompt_loop at input("Do you want to translate more? ...")
CliReadAgain(answer) ==
    /\ cli.pc = "again"
    /\ cli' = IF Lower(Strip(answer)) \in {<<"y", "e", "s">>, <<"y">>}
              THEN [pc |-> "text", text |-> <<>>, said |-> "banner"]
              ELSE [pc |-> "exited", text |-> <<>>, said |-> "bye"]
    /\ UNCHANGED <<handles, last, arg, ret>>

Next ==
    \/ \E text \in Texts, target \in Targets : translate_api(text, target)
    \/ \E line \in Texts : CliReadText(line)
    \/ \E line \in Targets : CliReadTarget(line)
    \/ \E answer \in Answers : CliReadAgain(answer)

Spec == Init /\ [][Next]_vars

\* C2: translate_and_romanize calls the translation service exactly once, with
\* the normalized target code, and always returns a triple: when the
\* translation fails, translated is the diagnostic string embedding the error
\* message, and no fault is raised out of the pipeline.
C2_PipelineAlwaysReturns ==
    (last.kind # "none" /\ last.pipeline # <<>>) =>
        LET call == last.pipeline[1]
        IN  /\ Len(last.translations) = 1
            /\ last.translations[1] = [text |-> call.text,
                                       target |-> normalize_target_lang(call.target)]
            /\ ~last.raised
            /\ (call.failed =>
                   last.out.translated = <<"(", "t", "r", "a", "n", "s", "l", "a", "t", "i", "o", "n", " ", "e", "r", "r", "o", "r", ":", " ", "b", "o", "o", "m", ")">>)

\* C7: the pipeline, the classifier and the translation service are never
\* invoked with an empty or whitespace-only text: the HTTP handler answers
\* {source_lang: "-", translated: "", romanized: ""} and the CLI loop re-prompts
\* for text, both without calling the pipeline.
C7_BlankNeverReachesPipeline ==
    /\ last.kind # "none" =>
          /\ \A i \in 1..Len(last.pipeline) : ~IsBlank(last.pipeline[i].text)
          /\ \A i \in 1..Len(last.classified) : ~IsBlank(last.classified[i])
          /\ \A i \in 1..Len(last.translations) : ~IsBlank(last.translations[i].text)
    /\ (last.kind = "http" /\ IsBlank(last.text)) =>
          /\ last.out = [status |-> 200, source_lang |-> <<"-">>,
                         translated |-> <<>>, romanized |-> <<>>]
          /\ last.pipeline = <<>> /\ last.classified = <<>> /\ last.translations = <<>>
    /\ cli.said = "no_text" => cli.pc = "text"
    /\ cli.pc = "target" => ~IsBlank(cli.text)

\* a whitespace-only text was posted and answered with the placeholder
C7_Witness ==
    /\ last.kind = "http"
    /\ last.text = <<" ", "U0009">>
    /\ last.out.source_lang = <<"-">>
    /\ last.pipeline = <<>>
    /\ cli.said = "no_text"

\* C8: the handles keep the value they had at startup, no request initializes
\* an engine at call time, and an engine whose initialization failed is treated
\* as unavailable (pass-through) by every later request.
C8_HandlesFixedAtStartup ==
    [][/\ handles' = handles
       /\ (last'.kind # "none" /\ last'.pipeline # <<>>) =>
             /\ last'.constructed = 0
             /\ LET adapter == Adapter(normalize_target_lang(last'.pipeline[1].target))
                IN  (adapter \in EngineBacked /\ ~EngineAvailable(adapter, handles)) =>
                       (~last'.raised /\ last'.out.romanized = last'.out.translated)]_vars

====
